---- MODULE Spec2Model ----
(***************************************************************************)
(* Model of playwright/_impl/_page.py: the Page channel object, its        *)
(* inbound notification handlers, wait_for_event, the route list and the   *)
(* binding table.                                                          *)
(*                                                                         *)
(* Every action records in `trace` the observable effects of the handler   *)
(* or call it models (events emitted, listeners run, waits settled,        *)
(* messages sent, hooks of the browser context called), in the order the   *)
(* code produces them.  `trace` is reset by each action, so it always      *)
(* describes the last operation only.                                      *)
(***************************************************************************)
EXTENDS Integers, Sequences, FiniteSets, TLC

\* ------------------------------------------------------------------ bounds
\* number of wait_for_event / wait_for_request calls
MaxWaits == 2
\* the longest timeout, in ticks of the event loop's clock
MaxTime == 1
\* longest route list
MaxRoutes == 3
\* waits started in the runs with a fair timer
MaxLive == 1

\* -------------------------------------------------------- Page.Events
Close == "close"
Crash == "crash"
Request == "request"
FileChooser == "filechooser"
FrameAttached == "frameattached"
FrameDetached == "framedetached"
WorkerEvent == "worker"
Events == {Close, Crash, Request, FileChooser, FrameAttached, FrameDetached, WorkerEvent}

\* payload of an emit() without argument (close, crash)
None == "None"
Urls == {"a", "b"}
Patterns == Urls \cup {"*"}

\* URLMatcher(pattern).matches(url): an exact pattern or the glob "*"
Matches(pattern, url) == pattern = "*" \/ pattern = url

\* predicates handed to wait_for_event: absent ("nopred"), one that refuses
\* every payload ("never"), or a URL matcher (the URL)
NoPred == "nopred"

\* listener(e): `if not predicate or predicate(e)`
PredAccepts(pred, payload) ==
    CASE pred = NoPred -> TRUE
      [] pred = "never" -> FALSE
      [] OTHER -> Matches(pred, payload)

\* my_predicate of wait_for_request(urlOrPredicate): a URL becomes a matcher
\* on request.url, a callable is used as it is
MyPredicate(urlOrPredicate) == urlOrPredicate

\* route handlers; a handler written with `async def` returns a coroutine
Handlers == {"h1", "h2"}
AsyncHandlers == {"h2"}
\* a plain handler that raises when it is called
RaisingHandlers == {"h3"}
\* names and callbacks of exposed bindings
Names == {"f", "g"}
Callbacks == {"cb1", "cb2"}

WaitIds == 1..MaxWaits
NoTimer == -1
\* TimeoutSettings.timeout(): the default used when timeout is None
DefaultTimeout == MaxTime
\* `timeout: float = None`
TimeoutNone == -1
TimeoutArgs == {TimeoutNone, 0} \cup 1..MaxTime
\* the main frame, and the child frames and workers the connection announces
MainFrame == "main"
ChildFrames == {"frame1", "frame2"}
Workers == {"worker1"}
\* BindingCall.call: no call is running. `func`, `args`, `future` record what
\* the call met; `resolve` and `reject` are the two sends; `msgs` is what
\* was handed to the channel, in order
IdleCall == [pc |-> "idle", func |-> None, args |-> None, value |-> None,
             future |-> "none", resolve |-> "none", reject |-> "none", msgs |-> <<>>]

VARIABLES
    is_closed,    \* Page._is_closed
    in_pages,     \* self in self._browser_context._pages
    delivered,    \* terminal notifications the connection has delivered
    waits,        \* the WaitHelper of every wait_for_event call; `left` is
                  \* the time left on its timer
    listeners,    \* the page's listener registry: event -> sequence
    routes,       \* Page._routes
    bindings,     \* Page._bindings: name -> callback (None: name absent)
    ctx_bindings, \* names in self._browser_context._bindings
    frames,       \* Page._frames
    detached,     \* the frames whose _detached is True
    workers,      \* Page._workers
    worker_page,  \* the workers whose _page is this page
    call,         \* the BindingCall.call in progress
    intercept,    \* the last setNetworkInterceptionEnabled value sent
    in_flight,    \* sends not yet answered and tasks not yet finished
    trace         \* effects of the last operation

vars == <<is_closed, in_pages, delivered, waits, listeners, routes, bindings,
          ctx_bindings, frames, detached, workers, worker_page, call, intercept,
          in_flight, trace>>

\* ------------------------------------------------------------ trace
Eff2(kind, name, arg, arg2, id) ==
    [kind |-> kind, name |-> name, arg |-> arg, arg2 |-> arg2, id |-> id]
Eff(kind, name, arg, id) == Eff2(kind, name, arg, "None", id)
Op(name, arg, id) == Eff("op", name, arg, id)
Op2(name, arg, arg2) == Eff2("op", name, arg, arg2, 0)

Has(tr, e) == \E i \in 1..Len(tr) : tr[i] = e
Count(tr, kind) == Cardinality({i \in 1..Len(tr) : tr[i].kind = kind})
IsOp(tr, name) == Len(tr) > 0 /\ tr[1].kind = "op" /\ tr[1].name = name

\* ------------------------------------------------------------ listeners
WaitListener(w, role) == [kind |-> "wait", id |-> w, role |-> role]
UserListener(u) == [kind |-> "user", id |-> u, role |-> "user"]

RECURSIVE Without(_, _)
Without(s, x) ==
    IF s = <<>> THEN <<>>
    ELSE IF Head(s) = x THEN Tail(s)
    ELSE <<Head(s)>> \o Without(Tail(s), x)

\* The page state a handler works on: a record of the variables it may
\* change, threaded through the statements of the handler.
Cur(op) == [is_closed |-> is_closed, in_pages |-> in_pages, waits |-> waits,
            listeners |-> listeners, routes |-> routes, bindings |-> bindings,
            frames |-> frames, detached |-> detached, workers |-> workers,
            worker_page |-> worker_page, intercept |-> intercept, trace |-> <<op>>]

Commit(st) ==
    /\ is_closed' = st.is_closed
    /\ in_pages' = st.in_pages
    /\ waits' = st.waits
    /\ listeners' = st.listeners
    /\ routes' = st.routes
    /\ bindings' = st.bindings
    /\ frames' = st.frames
    /\ detached' = st.detached
    /\ workers' = st.workers
    /\ worker_page' = st.worker_page
    /\ intercept' = st.intercept
    /\ trace' = st.trace

Log(st, e) == [st EXCEPT !.trace = Append(@, e)]

\* _add_event_handler without the test of the listener count
AddEventHandler_NoCount(st, event, l) ==
    LET s1 == IF event = FileChooser
              THEN Log(st, Eff("send_no_reply", "setFileChooserInterceptedNoReply", "true", 0))
              ELSE st
    IN [s1 EXCEPT !.listeners[event] = Append(@, l)]

\* Page._add_event_handler
AddEventHandler(st, event, l) ==
    LET s1 == IF event = FileChooser /\ Len(st.listeners[event]) = 0
              THEN Log(st, Eff("send_no_reply", "setFileChooserInterceptedNoReply", "true", 0))
              ELSE st
    IN [s1 EXCEPT !.listeners[event] = Append(@, l)]

\* remove_listener that leaves the listener registered
RemoveListener_Keep(st, event, l) ==
    IF event = FileChooser /\ Len(st.listeners[event]) = 0
    THEN Log(st, Eff("send_no_reply", "setFileChooserInterceptedNoReply", "false", 0))
    ELSE st

\* Page.remove_listener
RemoveListener(st, event, l) ==
    LET s1 == [st EXCEPT !.listeners[event] = Without(@, l)]
    IN IF event = FileChooser /\ Len(s1.listeners[event]) = 0
       THEN Log(s1, Eff("send_no_reply", "setFileChooserInterceptedNoReply", "false", 0))
       ELSE s1

\* ------------------------------------------------------------ WaitHelper
\* `zero` records that the call passed timeout=0
IdleWait == [event |-> None, pred |-> NoPred, left |-> NoTimer, zero |-> FALSE,
             state |-> "idle"]

RECURSIVE DetachAll(_, _, _)
DetachAll(st, w, evs) ==
    IF evs = <<>> THEN st
    ELSE LET ev == Head(evs)
             ls == SelectSeq(st.listeners[ev], LAMBDA l : l.kind = "wait" /\ l.id = w)
         IN DetachAll(IF ls = <<>> THEN st ELSE RemoveListener(st, ev, ls[1]),
                      w, Tail(evs))

\* the timer of a wait when it settles
TimerState(wait) ==
    IF wait.left = NoTimer THEN "no timer"
    ELSE IF wait.left = 0 THEN "due"
    ELSE "running"

\* the single future of a wait settles once; its timer is cancelled, its
\* listeners are detached and the helper is dropped (the event and the
\* outcome stay)
Settle(st, w, outcome, payload) ==
    LET s1 == [st EXCEPT !.waits[w] = [IdleWait EXCEPT !.state = outcome,
                                                       !.event = st.waits[w].event]]
        s2 == Log(s1, Eff2("settle", outcome, payload, TimerState(st.waits[w]), w))
    IN DetachAll(s2, w, <<Crash, Close, Request, FileChooser>>)

\* what a listener reads when it runs: page.is_closed(), the membership of
\* the page in context.pages, and how many waits are not settled yet
Observed(st) ==
    IF st.is_closed
    THEN IF st.in_pages THEN "closed, in pages" ELSE "closed, not in pages"
    ELSE IF st.in_pages THEN "open, in pages" ELSE "open, not in pages"
PendingCount(st) == Cardinality({w \in WaitIds : st.waits[w].state = "pending"})

InSeq(s, x) == \E i \in 1..Len(s) : s[i] = x

\* where a listener finds the frame or worker it is called with
ObjectState(st, x) ==
    IF InSeq(st.frames, x)
    THEN IF x \in st.detached THEN "in frames, detached" ELSE "in frames"
    ELSE IF x \in st.detached THEN "not in frames, detached"
    ELSE IF InSeq(st.workers, x) THEN "in workers"
    ELSE "absent"

\* one listener of the registry is called with the payload
Invoke(st, l, event, payload) ==
    IF l.kind = "user"
    THEN LET s1 == Log(Log(st, Eff2("listener", event, payload, Observed(st), l.id)),
                       Eff("sees pending", event, None, PendingCount(st)))
         IN IF event \in {FrameAttached, FrameDetached, WorkerEvent}
            THEN Log(s1, Eff2("sees object", event, payload, ObjectState(st, payload), l.id))
            ELSE s1
    ELSE IF st.waits[l.id].state # "pending" THEN st
    ELSE IF l.role = "event"
         THEN IF PredAccepts(st.waits[l.id].pred, payload)
              THEN Settle(st, l.id, "resolved", payload)
              ELSE st
    ELSE IF l.role = Crash THEN Settle(st, l.id, "crashed", None)
    ELSE Settle(st, l.id, "closed", None)

RECURSIVE EmitTo(_, _, _, _)
EmitTo(st, ls, event, payload) ==
    IF ls = <<>> THEN st
    ELSE EmitTo(Invoke(st, Head(ls), event, payload), Tail(ls), event, payload)

\* EventEmitter.emit: the listeners registered when emit starts, in
\* registration order
Emit(st, event, payload) ==
    EmitTo(Log(st, Eff("emit", event, payload, 0)), st.listeners[event], event, payload)

\* Page._pending_wait_for_events: created empty, nothing appends to it
pending_wait_for_events == <<>>

RECURSIVE RejectEach(_, _, _)
RejectEach(st, pending, is_crash) ==
    IF pending = <<>> THEN st
    ELSE RejectEach(Log(st, Eff("reject", IF is_crash THEN "Page crashed" ELSE "Page closed",
                                None, Head(pending))),
                    Tail(pending), is_crash)

\* Page._reject_pending_operations
RejectPendingOperations(st, is_crash) ==
    RejectEach(st, pending_wait_for_events, is_crash)

\* _on_close without the emit of the close event
OnClose_NoEmit(st) ==
    LET s1 == [st EXCEPT !.is_closed = TRUE]
    IN IF ~s1.in_pages
       THEN Log(s1, Eff("raise", "ValueError", None, 0))
       ELSE RejectPendingOperations([s1 EXCEPT !.in_pages = FALSE], FALSE)

\* ------------------------------------------------------------ handlers
\* Page._on_close
OnClose(st) ==
    LET s1 == [st EXCEPT !.is_closed = TRUE]
    IN IF ~s1.in_pages
       THEN Log(s1, Eff("raise", "ValueError", None, 0))
       ELSE Emit(RejectPendingOperations([s1 EXCEPT !.in_pages = FALSE], FALSE),
                 Close, None)

\* _on_crash that closes the page as _on_close does
OnCrash_Closes(st) ==
    Emit(RejectPendingOperations([st EXCEPT !.is_closed = TRUE, !.in_pages = FALSE], TRUE),
         Crash, None)

\* _on_crash without the emit of the crash event
OnCrash_NoEmit(st) ==
    RejectPendingOperations(st, TRUE)

\* Page._on_crash
OnCrash(st) ==
    Emit(RejectPendingOperations(st, TRUE), Crash, None)

\* Page._on_frame_attached
OnFrameAttached(st, frame) ==
    Emit([st EXCEPT !.frames = Append(@, frame)], FrameAttached, frame)

\* _on_frame_detached that removes the first frame of the list
OnFrameDetached_First(st, frame) ==
    IF ~InSeq(st.frames, frame)
    THEN Log(st, Eff("raise", "ValueError", None, 0))
    ELSE Emit([st EXCEPT !.frames = Tail(@), !.detached = @ \cup {frame}],
              FrameDetached, frame)

\* _on_frame_detached that emits before it removes and marks the frame
OnFrameDetached_EmitFirst(st, frame) ==
    IF ~InSeq(st.frames, frame)
    THEN Log(st, Eff("raise", "ValueError", None, 0))
    ELSE LET s1 == Emit(st, FrameDetached, frame)
         IN [s1 EXCEPT !.frames = Without(@, frame), !.detached = @ \cup {frame}]

\* Page._on_frame_detached: list.remove raises when the frame is absent
OnFrameDetached(st, frame) ==
    IF ~InSeq(st.frames, frame)
    THEN Log(st, Eff("raise", "ValueError", None, 0))
    ELSE Emit([st EXCEPT !.frames = Without(@, frame), !.detached = @ \cup {frame}],
              FrameDetached, frame)

\* Page._on_worker
OnWorker(st, worker) ==
    Emit([st EXCEPT !.workers = Append(@, worker), !.worker_page = @ \cup {worker}],
         WorkerEvent, worker)

\* the worker emits its close event; the record says where its listeners
\* find the worker
EmitWorkerClose(st, worker) ==
    Log(st, Eff2("emit_worker", Close, worker, ObjectState(st, worker), 0))

\* Worker._on_close that leaves the worker in the page's list
WorkerOnClose_NoRemove(st, worker) ==
    EmitWorkerClose(st, worker)

\* Worker._on_close of a worker without a browser context
WorkerOnClose(st, worker) ==
    IF worker \in st.worker_page
    THEN IF ~InSeq(st.workers, worker)
         THEN Log(st, Eff("raise", "ValueError", None, 0))
         ELSE EmitWorkerClose([st EXCEPT !.workers = Without(@, worker)], worker)
    ELSE EmitWorkerClose(st, worker)

\* reject_on_timeout: a timeout of 0 starts no timer
Deadline(timeout) == IF timeout = 0 THEN NoTimer ELSE timeout

\* wait_for_event without reject_on_event(Close)
WaitForEventCall_NoCloseReject(st, w, event, predicate, timeoutArg) ==
    LET timeout == IF timeoutArg = TimeoutNone THEN DefaultTimeout ELSE timeoutArg
        s1 == [st EXCEPT !.waits[w] = [event |-> event, pred |-> predicate,
                                       left |-> Deadline(timeout),
                                       zero |-> (timeoutArg = 0),
                                       state |-> "pending"]]
        s2 == IF event # Crash THEN AddEventHandler(s1, Crash, WaitListener(w, Crash)) ELSE s1
    IN AddEventHandler(s2, event, WaitListener(w, "event"))

\* wait_for_event without the `event !=` tests before reject_on_event
WaitForEventCall_AlwaysReject(st, w, event, predicate, timeoutArg) ==
    LET timeout == IF timeoutArg = TimeoutNone THEN DefaultTimeout ELSE timeoutArg
        s1 == [st EXCEPT !.waits[w] = [event |-> event, pred |-> predicate,
                                       left |-> Deadline(timeout),
                                       zero |-> (timeoutArg = 0),
                                       state |-> "pending"]]
        s2 == AddEventHandler(s1, Crash, WaitListener(w, Crash))
        s3 == AddEventHandler(s2, Close, WaitListener(w, Close))
    IN AddEventHandler(s3, event, WaitListener(w, "event"))

\* wait_for_event with `if not timeout:` in place of `if timeout is None:`
WaitForEventCall_FalsyTimeout(st, w, event, predicate, timeoutArg) ==
    LET timeout == IF timeoutArg = TimeoutNone \/ timeoutArg = 0
                   THEN DefaultTimeout ELSE timeoutArg
        s1 == [st EXCEPT !.waits[w] = [event |-> event, pred |-> predicate,
                                       left |-> Deadline(timeout),
                                       zero |-> (timeoutArg = 0),
                                       state |-> "pending"]]
        s2 == IF event # Crash THEN AddEventHandler(s1, Crash, WaitListener(w, Crash)) ELSE s1
        s3 == IF event # Close THEN AddEventHandler(s2, Close, WaitListener(w, Close)) ELSE s2
    IN AddEventHandler(s3, event, WaitListener(w, "event"))

\* wait_for_event without the call of reject_on_timeout
WaitForEventCall_NoTimeout(st, w, event, predicate, timeoutArg) ==
    LET s1 == [st EXCEPT !.waits[w] = [event |-> event, pred |-> predicate,
                                       left |-> NoTimer,
                                       zero |-> (timeoutArg = 0),
                                       state |-> "pending"]]
        s2 == IF event # Crash THEN AddEventHandler(s1, Crash, WaitListener(w, Crash)) ELSE s1
        s3 == IF event # Close THEN AddEventHandler(s2, Close, WaitListener(w, Close)) ELSE s2
    IN AddEventHandler(s3, event, WaitListener(w, "event"))

\* wait_for_event that registers no reject_on_event for a terminal event
WaitForEventCall_TerminalExempt(st, w, event, predicate, timeoutArg) ==
    LET timeout == IF timeoutArg = TimeoutNone THEN DefaultTimeout ELSE timeoutArg
        s1 == [st EXCEPT !.waits[w] = [event |-> event, pred |-> predicate,
                                       left |-> Deadline(timeout),
                                       zero |-> (timeoutArg = 0),
                                       state |-> "pending"]]
        s2 == IF event \notin {Crash, Close}
              THEN AddEventHandler(s1, Crash, WaitListener(w, Crash)) ELSE s1
        s3 == IF event \notin {Crash, Close}
              THEN AddEventHandler(s2, Close, WaitListener(w, Close)) ELSE s2
    IN AddEventHandler(s3, event, WaitListener(w, "event"))

\* Page.wait_for_event
WaitForEventCall(st, w, event, predicate, timeoutArg) ==
    LET timeout == IF timeoutArg = TimeoutNone THEN DefaultTimeout ELSE timeoutArg
        s1 == [st EXCEPT !.waits[w] = [event |-> event, pred |-> predicate,
                                       left |-> Deadline(timeout),
                                       zero |-> (timeoutArg = 0),
                                       state |-> "pending"]]
        s2 == IF event # Crash THEN AddEventHandler(s1, Crash, WaitListener(w, Crash)) ELSE s1
        s3 == IF event # Close THEN AddEventHandler(s2, Close, WaitListener(w, Close)) ELSE s2
    IN AddEventHandler(s3, event, WaitListener(w, "event"))

\* ------------------------------------------------------------ routes
RouteHandlerEntry(url, handler) == [match |-> url, handler |-> handler]

SetInterception(st, enabled) ==
    Log([st EXCEPT !.intercept = enabled],
        Eff("send", "setNetworkInterceptionEnabled", enabled, 0))

\* route that never sends the enable message
RouteCall_NeverEnables(st, url, handler) ==
    [st EXCEPT !.routes = Append(@, RouteHandlerEntry(url, handler))]

\* Page.route
RouteCall(st, url, handler) ==
    LET s1 == [st EXCEPT !.routes = Append(@, RouteHandlerEntry(url, handler))]
    IN IF Len(s1.routes) = 1 THEN SetInterception(s1, "true") ELSE s1

\* the filter of Page.unroute: the entries that stay
Stays(r, url, handler) ==
    r.match # url \/ (handler # None /\ r.handler # handler)

\* unroute that removes the entries of the url whatever their handler
UnrouteCall_AnyHandler(st, url, handler) ==
    LET s1 == [st EXCEPT !.routes = SelectSeq(@, LAMBDA r : r.match # url)]
    IN IF Len(s1.routes) = 0 THEN SetInterception(s1, "false") ELSE s1

\* Page.unroute
UnrouteCall(st, url, handler) ==
    LET s1 == [st EXCEPT !.routes = SelectSeq(@, LAMBDA r : Stays(r, url, handler))]
    IN IF Len(s1.routes) = 0 THEN SetInterception(s1, "false") ELSE s1

\* the loop of Page._on_route from entry i on: the handler runs inside the
\* loop, so what a plain handler raises leaves _on_route; the coroutine of
\* an asynchronous handler becomes a task
RECURSIVE OnRouteFrom(_, _, _)
OnRouteFrom(st, i, url) ==
    IF i > Len(st.routes)
    THEN Log(st, Eff("ctx_on_route", "browser_context", url, 0))
    ELSE IF Matches(st.routes[i].match, url)
         THEN LET s1 == Log(st, Eff("handler", st.routes[i].handler, url, i))
              IN IF st.routes[i].handler \in AsyncHandlers
                 THEN Log(s1, Eff("create_task", st.routes[i].handler, url, i))
                 ELSE IF st.routes[i].handler \in RaisingHandlers
                 THEN Log(s1, Eff("raise", "HandlerError", st.routes[i].handler, i))
                 ELSE s1
         ELSE OnRouteFrom(st, i + 1, url)

\* _on_route scanning the list from its end
RECURSIVE OnRouteBack(_, _, _)
OnRouteBack(st, i, url) ==
    IF i < 1
    THEN Log(st, Eff("ctx_on_route", "browser_context", url, 0))
    ELSE IF Matches(st.routes[i].match, url)
         THEN LET s1 == Log(st, Eff("handler", st.routes[i].handler, url, i))
              IN IF st.routes[i].handler \in AsyncHandlers
                 THEN Log(s1, Eff("create_task", st.routes[i].handler, url, i))
                 ELSE s1
         ELSE OnRouteBack(st, i - 1, url)

OnRoute_LastMatch(st, url) == OnRouteBack(st, Len(st.routes), url)

\* _on_route without the `return` after the handler call
OnRoute_FallThrough(st, url) ==
    LET s1 == OnRouteFrom(st, 1, url)
        ctx == Eff("ctx_on_route", "browser_context", url, 0)
    IN IF Has(s1.trace, ctx) THEN s1 ELSE Log(s1, ctx)

\* _on_route that runs an asynchronous handler to its end before it returns
OnRoute_AwaitsHandler(st, url) ==
    LET s1 == OnRouteFrom(st, 1, url)
    IN [s1 EXCEPT !.trace = SelectSeq(@, LAMBDA e : e.kind # "create_task")]

\* Page._on_route
OnRoute(st, url) == OnRouteFrom(st, 1, url)

\* ------------------------------------------------------------ bindings
\* Page._on_binding
OnBinding(st, name) ==
    LET func == st.bindings[name]
        s1 == IF func # None THEN Log(st, Eff("create_task", name, func, 0)) ELSE st
    IN Log(s1, Eff("ctx_on_binding", "browser_context", name, 0))

\* expose_binding without the test of the browser context's bindings
ExposeBindingCall_NoCtxCheck(st, name, callback) ==
    IF st.bindings[name] # None
    THEN Log(st, Eff("raise", "Error", "already registered", 0))
    ELSE Log([st EXCEPT !.bindings[name] = callback], Eff("send", "exposeBinding", name, 0))

\* expose_binding that sends without recording the callback first
ExposeBindingCall_NoRecord(st, name, callback) ==
    IF st.bindings[name] # None
    THEN Log(st, Eff("raise", "Error", "already registered", 0))
    ELSE IF name \in ctx_bindings
    THEN Log(st, Eff("raise", "Error", "already registered in the browser context", 0))
    ELSE Log(st, Eff("send", "exposeBinding", name, 0))

\* Page.expose_binding
ExposeBindingCall(st, name, callback) ==
    IF st.bindings[name] # None
    THEN Log(st, Eff("raise", "Error", "already registered", 0))
    ELSE IF name \in ctx_bindings
    THEN Log(st, Eff("raise", "Error", "already registered in the browser context", 0))
    ELSE Log([st EXCEPT !.bindings[name] = callback], Eff("send", "exposeBinding", name, 0))

\* ------------------------------------------------------------ actions
FreeWait(w) == waits[w].state = "idle" /\ \A v \in WaitIds : v < w => waits[v].state # "idle"

WaitEvents == {Close, Crash, Request}

WaitForEvent ==
    \E w \in WaitIds, event \in WaitEvents, p \in {NoPred, "never"}, t \in TimeoutArgs :
        /\ FreeWait(w)
        /\ Commit(WaitForEventCall(Cur(Op("wait_for_event", event, w)), w, event, p, t))
        /\ UNCHANGED <<delivered, ctx_bindings, call, in_flight>>

\* Page.wait_for_request
WaitForRequest ==
    \E w \in WaitIds, url \in Urls, t \in TimeoutArgs :
        /\ FreeWait(w)
        /\ Commit(WaitForEventCall(Cur(Op("wait_for_request", Request, w)), w, Request,
                                   MyPredicate(url), t))
        /\ UNCHANGED <<delivered, ctx_bindings, call, in_flight>>

\* the timer of reject_on_timeout fires
Timeout ==
    \E w \in WaitIds :
        /\ waits[w].state = "pending"
        /\ waits[w].left = 0
        /\ Commit(Settle(Cur(Op("timeout", waits[w].event, w)), w, "timeout", None))
        /\ UNCHANGED <<delivered, ctx_bindings, call, in_flight>>

\* the clock advances by one tick while a timer is running
Tick ==
    /\ \E w \in WaitIds : waits[w].left > 0
    /\ waits' = [w \in WaitIds |->
                   IF waits[w].left > 0 THEN [waits[w] EXCEPT !.left = @ - 1] ELSE waits[w]]
    /\ trace' = <<Op("tick", None, 0)>>
    /\ UNCHANGED <<is_closed, in_pages, delivered, listeners, routes, bindings, ctx_bindings,
                   frames, detached, workers, worker_page, call, intercept, in_flight>>

\* inbound notifications; the connection delivers close and crash once each
CloseNotification ==
    /\ Close \notin delivered
    /\ delivered' = delivered \cup {Close}
    /\ Commit(OnClose(Cur(Op("close", None, 0))))
    /\ UNCHANGED <<ctx_bindings, call, in_flight>>

CrashNotification ==
    /\ Crash \notin delivered
    /\ delivered' = delivered \cup {Crash}
    /\ Commit(OnCrash(Cur(Op("crash", None, 0))))
    /\ UNCHANGED <<ctx_bindings, call, in_flight>>

RequestNotification ==
    \E url \in Urls :
        /\ Commit(Emit(Cur(Op("request", url, 0)), Request, url))
        /\ UNCHANGED <<delivered, ctx_bindings, call, in_flight>>

Init ==
    /\ is_closed = FALSE
    /\ in_pages = TRUE
    /\ delivered = {}
    /\ waits = [w \in WaitIds |-> IdleWait]
    /\ listeners = [e \in Events |-> <<>>]
    /\ frames = <<MainFrame>>
    /\ detached = {}
    /\ workers = <<>>
    /\ worker_page = {}
    /\ call = IdleCall
    /\ intercept = "none"
    /\ in_flight = {}
    /\ routes = <<>>
    /\ bindings = [n \in Names |-> None]
    /\ ctx_bindings = {}
    /\ trace = <<>>

Next ==
    \/ CloseNotification
    \/ CrashNotification
    \/ RequestNotification
    \/ WaitForEvent
    \/ WaitForRequest
    \/ Timeout
    \/ Tick

Spec == Init /\ [][Next]_vars

\* waits under a fair timer: wait_for_event calls on the first MaxLive waits,
\* each with a predicate that accepts nothing
LiveIds == 1..MaxLive

WaitForEventLive ==
    \E w \in LiveIds, event \in {Request, Close}, t \in TimeoutArgs :
        /\ FreeWait(w)
        /\ Commit(WaitForEventCall(Cur(Op("wait_for_event", event, w)), w, event,
                                   "never", t))
        /\ UNCHANGED <<delivered, ctx_bindings, call, in_flight>>

NextLive ==
    \/ CloseNotification
    \/ CrashNotification
    \/ RequestNotification
    \/ WaitForEventLive
    \/ Timeout
    \/ Tick

\* the event loop runs a timer callback that is due, and time passes
SpecLive == Init /\ [][NextLive]_vars /\ WF_vars(Tick) /\ WF_vars(Timeout)

\* ------------------------------------------------- frames and workers
\* the connection announces every frame and every worker once, and reports
\* the detach of an attached frame and the close of an announced worker
FrameAttachedNotification ==
    \E frame \in ChildFrames :
        /\ ~InSeq(frames, frame) /\ frame \notin detached
        /\ Commit(OnFrameAttached(Cur(Op("frameAttached", frame, 0)), frame))
        /\ UNCHANGED <<delivered, ctx_bindings, call, in_flight>>

FrameDetachedNotification ==
    \E frame \in ChildFrames :
        /\ InSeq(frames, frame)
        /\ Commit(OnFrameDetached(Cur(Op("frameDetached", frame, 0)), frame))
        /\ UNCHANGED <<delivered, ctx_bindings, call, in_flight>>

WorkerNotification ==
    \E worker \in Workers :
        /\ worker \notin worker_page
        /\ Commit(OnWorker(Cur(Op("worker", worker, 0)), worker))
        /\ UNCHANGED <<delivered, ctx_bindings, call, in_flight>>

WorkerCloseNotification ==
    \E worker \in Workers :
        /\ InSeq(workers, worker)
        /\ Commit(WorkerOnClose(Cur(Op("workerClose", worker, 0)), worker))
        /\ UNCHANGED <<delivered, ctx_bindings, call, in_flight>>

\* frames and workers alone, with two workers and a listener of the
\* frameattached, framedetached and worker events
MoreWorkers == Workers \cup {"worker2"}
ObjectEvents == {FrameAttached, FrameDetached, WorkerEvent}

WorkerAnnounced ==
    \E worker \in MoreWorkers :
        /\ worker \notin worker_page
        /\ Commit(OnWorker(Cur(Op("worker", worker, 0)), worker))
        /\ UNCHANGED <<delivered, ctx_bindings, call, in_flight>>

WorkerClosed ==
    \E worker \in MoreWorkers :
        /\ InSeq(workers, worker)
        /\ Commit(WorkerOnClose(Cur(Op("workerClose", worker, 0)), worker))
        /\ UNCHANGED <<delivered, ctx_bindings, call, in_flight>>

OnObjectEvent ==
    \E event \in ObjectEvents :
        /\ ~InSeq(listeners[event], UserListener(1))
        /\ Commit(AddEventHandler(Cur(Op("on", event, 1)), event, UserListener(1)))
        /\ UNCHANGED <<delivered, ctx_bindings, call, in_flight>>

NextFrames ==
    \/ FrameAttachedNotification
    \/ FrameDetachedNotification
    \/ WorkerAnnounced
    \/ WorkerClosed
    \/ OnObjectEvent
    \/ CloseNotification

SpecFrames == Init /\ [][NextFrames]_vars

\* page.route on a page without routes
RouteFirst ==
    \E url \in Patterns, h \in Handlers :
        /\ Len(routes) = 0
        /\ Commit(RouteCall(Cur(Op2("route", url, h)), url, h))
        /\ UNCHANGED <<delivered, ctx_bindings, call, in_flight>>

\* a wait for requests without predicate and without timer
WaitForEventPage ==
    /\ FreeWait(1)
    /\ Commit(WaitForEventCall(Cur(Op("wait_for_event", Request, 1)), 1, Request, NoPred, 0))
    /\ UNCHANGED <<delivered, ctx_bindings, call, in_flight>>

\* ------------------------------------------------- routes and bindings
Route ==
    \E url \in Patterns, h \in Handlers :
        /\ Len(routes) < MaxRoutes
        /\ Commit(RouteCall(Cur(Op2("route", url, h)), url, h))
        /\ UNCHANGED <<delivered, ctx_bindings, call, in_flight>>

Unroute ==
    \E url \in Patterns, h \in Handlers \cup {None} :
        /\ Commit(UnrouteCall(Cur(Op2("unroute", url, h)), url, h))
        /\ UNCHANGED <<delivered, ctx_bindings, call, in_flight>>

RouteNotification ==
    \E url \in Urls :
        /\ Commit(OnRoute(Cur(Op("route_notification", url, 0)), url))
        /\ UNCHANGED <<delivered, ctx_bindings, call, in_flight>>

ExposeBinding ==
    \E name \in Names, cb \in Callbacks :
        /\ Commit(ExposeBindingCall(Cur(Op2("expose_binding", name, cb)), name, cb))
        /\ UNCHANGED <<delivered, ctx_bindings, call, in_flight>>

BindingCallNotification ==
    \E name \in Names :
        /\ Commit(OnBinding(Cur(Op("bindingCall", name, 0)), name))
        /\ UNCHANGED <<delivered, ctx_bindings, call, in_flight>>

\* the browser context may already hold bindings when the page is used
InitDispatch ==
    /\ is_closed = FALSE
    /\ in_pages = TRUE
    /\ delivered = {}
    /\ waits = [w \in WaitIds |-> IdleWait]
    /\ listeners = [e \in Events |-> <<>>]
    /\ frames = <<MainFrame>>
    /\ detached = {}
    /\ workers = <<>>
    /\ worker_page = {}
    /\ call = IdleCall
    /\ intercept = "none"
    /\ in_flight = {}
    /\ routes = <<>>
    /\ bindings = [n \in Names |-> None]
    /\ ctx_bindings \in SUBSET Names
    /\ trace = <<>>

NextDispatch ==
    \/ Route
    \/ Unroute
    \/ RouteNotification
    \/ ExposeBinding
    \/ BindingCallNotification

SpecDispatch == InitDispatch /\ [][NextDispatch]_vars

\* ------------------------------------------------- user listeners
UserIds == {1, 2}
ListenEvents == {Close, FileChooser}

\* page.on(event, listener) with a listener not yet registered for the event
On ==
    \E event \in ListenEvents, u \in UserIds :
        /\ ~InSeq(listeners[event], UserListener(u))
        /\ Commit(AddEventHandler(Cur(Op("on", event, u)), event, UserListener(u)))
        /\ UNCHANGED <<delivered, ctx_bindings, call, in_flight>>

\* page.remove_listener(event, listener); the emitter raises KeyError for a
\* listener that is not registered, before the page's own test runs
RemoveListenerCall ==
    \E event \in ListenEvents, u \in UserIds :
        /\ Commit(IF InSeq(listeners[event], UserListener(u))
                  THEN RemoveListener(Cur(Op("remove_listener", event, u)), event,
                                      UserListener(u))
                  ELSE Log(Cur(Op("remove_listener", event, u)),
                           Eff("raise", "KeyError", event, u)))
        /\ UNCHANGED <<delivered, ctx_bindings, call, in_flight>>

\* wait_for_event without predicate and without timer
WaitForEventListen ==
    \E w \in WaitIds, event \in {Request, FileChooser} :
        /\ FreeWait(w)
        /\ Commit(WaitForEventCall(Cur(Op("wait_for_event", event, w)), w, event, NoPred, 0))
        /\ UNCHANGED <<delivered, ctx_bindings, call, in_flight>>

FileChooserNotification ==
    /\ Commit(Emit(Cur(Op("fileChooser", "chooser", 0)), FileChooser, "chooser"))
    /\ UNCHANGED <<delivered, ctx_bindings, call, in_flight>>

NextListen ==
    \/ On
    \/ RemoveListenerCall
    \/ WaitForEventListen
    \/ FileChooserNotification
    \/ CloseNotification
    \/ CrashNotification

SpecListen == Init /\ [][NextListen]_vars

\* ------------------------------------------------- BindingCall.call
\* what the registered function does when it is called
FuncBehaviours == {"returns", "raises Exception", "raises BaseException",
                   "returns future", "returns coroutine"}
\* results: a plain value, None, and a structure nested too deep to serialize
Values == {"value", None, "deep"}
\* how the call gets the arguments: the handle, or parse_result over args,
\* which raises on a malformed argument
ArgKinds == {"handle", "args", "bad args"}

\* serialize_argument: None and every object of an unknown type (a
\* coroutine) become undefined
CanSerialize(v) == v # "deep"
SerializeArgument(v) ==
    CASE v = "value" -> "json value"
      [] OTHER -> "undefined"
\* serialize_error: message and stack of the exception
SerializeError(e) == [message |-> e, stack |-> "traceback"]

Msg(method, payload) == [method |-> method, payload |-> payload]

\* the except clause: the reject send is started as a task of its own
Except(c, e) ==
    [c EXCEPT !.pc = "done", !.reject = "scheduled",
              !.msgs = Append(@, Msg("reject", SerializeError(e)))]

\* call() from the serialization of the result on
SendResolve(c, result) ==
    IF ~CanSerialize(result)
    THEN Except(c, "Maximum argument depth exceeded")
    ELSE [c EXCEPT !.pc = "sending resolve", !.resolve = "sending",
                   !.msgs = Append(@, Msg("resolve", [result |-> SerializeArgument(result)]))]

\* call() up to its first await
CallBegin(c, func, args, value) ==
    LET c1 == [c EXCEPT !.func = func, !.args = args, !.value = value] IN
    IF args = "bad args" THEN Except(c1, "parse_result failed")
    ELSE IF func = "raises Exception" THEN Except(c1, "func failed")
    ELSE IF func = "raises BaseException" THEN [c1 EXCEPT !.pc = "raised"]
    ELSE IF func = "returns future"
         THEN [c1 EXCEPT !.pc = "awaiting future", !.future = "pending"]
    ELSE IF func = "returns coroutine" THEN SendResolve(c1, "coroutine")
    ELSE SendResolve(c1, value)

\* `result = await result`: the future is done. A cancellation is an
\* Exception before Python 3.8 and a BaseException from 3.8 on
FutureDoneIn(c, outcome, caught) ==
    LET c1 == [c EXCEPT !.future = outcome] IN
    IF outcome = "ok" THEN SendResolve(c1, c.value)
    ELSE IF outcome = "failed" THEN Except(c1, "future failed")
    ELSE IF caught THEN Except(c1, "cancelled")
    ELSE [c1 EXCEPT !.pc = "raised"]

\* a failed resolve send that is not caught
ResolveDoneIn_Uncaught(c, ok) ==
    IF ok THEN [c EXCEPT !.pc = "done", !.resolve = "sent"]
    ELSE [c EXCEPT !.pc = "raised", !.resolve = "failed"]

\* a failed resolve send that is dropped without a reject
ResolveDoneIn_NoReject(c, ok) ==
    IF ok THEN [c EXCEPT !.pc = "done", !.resolve = "sent"]
    ELSE [c EXCEPT !.pc = "done", !.resolve = "failed"]

\* `await self._channel.send("resolve", ...)` returns or raises
ResolveDoneIn(c, ok) ==
    IF ok THEN [c EXCEPT !.pc = "done", !.resolve = "sent"]
    ELSE Except([c EXCEPT !.resolve = "failed"], "send failed")

pagevars == <<is_closed, in_pages, delivered, waits, listeners, routes, bindings,
              ctx_bindings, frames, detached, workers, worker_page, intercept,
              in_flight>>

\* binding_call.call(func) starts once the previous call is over
CallStart ==
    \E func \in FuncBehaviours, args \in ArgKinds, value \in Values :
        /\ call.pc \in {"idle", "done", "raised"}
        /\ call.reject # "scheduled"
        /\ call' = CallBegin(IdleCall, func, args, value)
        /\ trace' = <<Op2("call", func, args)>>
        /\ UNCHANGED pagevars

FutureDone ==
    \E outcome \in {"ok", "failed", "cancelled"}, caught \in BOOLEAN :
        /\ call.pc = "awaiting future"
        /\ call' = FutureDoneIn(call, outcome, caught)
        /\ trace' = <<Op("future done", outcome, 0)>>
        /\ UNCHANGED pagevars

ResolveDone ==
    \E ok \in BOOLEAN :
        /\ call.pc = "sending resolve"
        /\ call' = ResolveDoneIn(call, ok)
        /\ trace' = <<Op("resolve done", IF ok THEN "ok" ELSE "failed", 0)>>
        /\ UNCHANGED pagevars

\* the task of the reject send ends; nothing awaits it
RejectDone ==
    \E ok \in BOOLEAN :
        /\ call.reject = "scheduled"
        /\ call' = [call EXCEPT !.reject = IF ok THEN "sent" ELSE "failed"]
        /\ trace' = <<Op("reject done", IF ok THEN "ok" ELSE "failed", 0)>>
        /\ UNCHANGED pagevars

NextCall ==
    \/ CallStart
    \/ FutureDone
    \/ ResolveDone
    \/ RejectDone

SpecCall == Init /\ [][NextCall]_vars

\* ------------------------------------------------- route and unroute alone
NextRoutes ==
    \/ Route
    \/ Unroute

SpecRoutes == Init /\ [][NextRoutes]_vars

\* ------------------------------------------------- tasks and sends in flight
\* the tasks an operation created and the exposeBinding sends it issued
NewTasks(tr) ==
    {<<"task", tr[i].name, tr[i].arg>> : i \in {j \in 1..Len(tr) : tr[j].kind = "create_task"}}
NewSends(tr) ==
    {<<"send", tr[i].name, tr[i].arg>> : i \in {j \in 1..Len(tr) : tr[j].kind = "send"}}
Exposing(name) == <<"send", "exposeBinding", name>> \in in_flight

\* page.route on a page without routes, with any kind of handler
RouteOne ==
    \E url \in Patterns, h \in Handlers \cup RaisingHandlers :
        /\ Len(routes) = 0
        /\ Commit(RouteCall(Cur(Op2("route", url, h)), url, h))
        /\ UNCHANGED <<delivered, ctx_bindings, call, in_flight>>

\* a route notification; the task of an asynchronous handler stays behind
RouteArrives ==
    \E url \in Urls :
        /\ Commit(OnRoute(Cur(Op("route_notification", url, 0)), url))
        /\ in_flight' = in_flight \cup NewTasks(trace')
        /\ UNCHANGED <<delivered, ctx_bindings, call>>

\* expose_binding up to its await: the send is on its way
ExposeStart ==
    \E name \in Names :
        /\ Commit(ExposeBindingCall(Cur(Op2("expose_binding", name, "cb1")), name, "cb1"))
        /\ in_flight' = in_flight \cup NewSends(trace')
        /\ UNCHANGED <<delivered, ctx_bindings, call>>

\* the answer to an exposeBinding send arrives
ExposeDone ==
    \E name \in Names :
        /\ Exposing(name)
        /\ in_flight' = in_flight \ {<<"send", "exposeBinding", name>>}
        /\ trace' = <<Op("expose_binding done", name, 0)>>
        /\ UNCHANGED <<is_closed, in_pages, delivered, waits, listeners, routes, bindings,
                       ctx_bindings, frames, detached, workers, worker_page, call,
                       intercept>>

\* a bindingCall notification; the task of binding_call.call stays behind
BindingArrives ==
    \E name \in Names :
        /\ Commit(OnBinding(Cur(Op("bindingCall", name, 0)), name))
        /\ in_flight' = in_flight \cup NewTasks(trace')
        /\ UNCHANGED <<delivered, ctx_bindings, call>>

\* a task ends, normally or with an exception that stays in the task
TaskDone ==
    \E t \in in_flight, ok \in BOOLEAN :
        /\ t[1] = "task"
        /\ in_flight' = in_flight \ {t}
        /\ trace' = <<Op2("task done", t[2], IF ok THEN "ok" ELSE "failed")>>
        /\ UNCHANGED <<is_closed, in_pages, delivered, waits, listeners, routes, bindings,
                       ctx_bindings, frames, detached, workers, worker_page, call,
                       intercept>>

NextAsync ==
    \/ RouteOne
    \/ RouteArrives
    \/ ExposeStart
    \/ ExposeDone
    \/ BindingArrives
    \/ TaskDone
    \/ CloseNotification
    \/ CrashNotification

SpecAsync == Init /\ [][NextAsync]_vars

\* ------------------------------------------------- terminal events and close()
\* how the send of page.close() ends: normally, with an error that
\* is_safe_close_error accepts, or with another error
CloseOutcomes == {"ok", "safe error", "error"}

\* close() that marks the page closed itself
PageClose_SetsClosed(st, owned_context, outcome) ==
    [Log(st, Eff("send", "close", None, 0)) EXCEPT !.is_closed = TRUE]

\* Page.close
PageClose(st, owned_context, outcome) ==
    LET s1 == Log(st, Eff("send", "close", None, 0))
    IN IF outcome = "error" THEN Log(s1, Eff("raise", "Error", None, 0))
       ELSE IF outcome = "ok" /\ owned_context
       THEN Log(s1, Eff("ctx_close", "owned_context", None, 0))
       ELSE s1

PageCloseCall ==
    \E owned_context \in BOOLEAN, outcome \in CloseOutcomes :
        /\ Commit(PageClose(Cur(Op("page.close", None, 0)), owned_context, outcome))
        /\ UNCHANGED <<delivered, ctx_bindings, call, in_flight>>

\* a wait for close or for crash
WaitForTerminal ==
    \E w \in WaitIds, event \in {Close, Crash}, p \in {NoPred, "never"}, t \in TimeoutArgs :
        /\ FreeWait(w)
        /\ Commit(WaitForEventCall(Cur(Op("wait_for_event", event, w)), w, event, p, t))
        /\ UNCHANGED <<delivered, ctx_bindings, call, in_flight>>

NextTerminal ==
    \/ WaitForTerminal
    \/ PageCloseCall
    \/ CloseNotification
    \/ CrashNotification
    \/ Timeout
    \/ Tick

SpecTerminal == Init /\ [][NextTerminal]_vars

\* ------------------------------------------------- the page as a whole
NextPage ==
    \/ FrameAttachedNotification
    \/ FrameDetachedNotification
    \/ WorkerNotification
    \/ WorkerCloseNotification
    \/ RouteFirst
    \/ ExposeBinding
    \/ WaitForEventPage
    \/ CrashNotification
    \/ CloseNotification

SpecPage == Init /\ [][NextPage]_vars


\* ====================================================== properties
IsPending(w) == waits[w].state = "pending"
Settled(tr, w, outcome) == \E i \in 1..Len(tr) :
    tr[i].kind = "settle" /\ tr[i].id = w /\ tr[i].name = outcome
Resolved(tr, w, payload) == \E i \in 1..Len(tr) :
    tr[i].kind = "settle" /\ tr[i].id = w /\ tr[i].name = "resolved" /\ tr[i].arg = payload
IsWaitOp(tr) == IsOp(tr, "wait_for_event") \/ IsOp(tr, "wait_for_request")
Sends(tr) == SelectSeq(tr, LAMBDA e : e.kind = "send")
Handled(tr) == SelectSeq(tr, LAMBDA e : e.kind = "handler")
MatchingEntries(url) == {i \in 1..Len(routes) : Matches(routes[i].match, url)}
FirstOf(S) == CHOOSE i \in S : \A j \in S : i <= j

\* C1: when the close notification is processed, every wait pending for an
\* event other than close is rejected with "Page closed" in that step,
\* whatever its predicate and timer; it is neither left pending nor settled
\* in any other way.
C1_CloseRejectsPending ==
    [][IsOp(trace', Close) =>
         \A w \in WaitIds :
            (IsPending(w) /\ waits[w].event # Close) =>
                /\ waits'[w].state = "closed"
                /\ Settled(trace', w, "closed")
                /\ Cardinality({i \in 1..Len(trace') :
                        trace'[i].kind = "settle" /\ trace'[i].id = w}) = 1]_vars

\* two waits were pending and the close notification rejected both
C1_Witness ==
    /\ IsOp(trace, Close)
    /\ Settled(trace, 1, "closed")
    /\ Settled(trace, 2, "closed")

\* C2: a wait for an event other than close that is started when the page
\* has already processed its close notification is rejected with the
\* page-closed error by the call itself.
C2_WaitAfterCloseRejected ==
    [][(is_closed /\ IsWaitOp(trace') /\ trace'[1].arg # Close) =>
         waits'[trace'[1].id].state = "closed"]_vars

\* C3: a route notification invokes the handler of the first entry, in
\* registration order, whose matcher matches the URL, and no other handler.
C3_FirstMatchWins ==
    [][IsOp(trace', "route_notification") =>
         LET url == trace'[1].arg
             M == MatchingEntries(url)
         IN M # {} =>
              Handled(trace') =
                <<Eff("handler", routes[FirstOf(M)].handler, url, FirstOf(M))>>]_vars

\* two entries with different handlers match the request; the first was invoked
C3_Witness ==
    /\ IsOp(trace, "route_notification")
    /\ \E i, j \in MatchingEntries(trace[1].arg) :
          /\ i < j
          /\ routes[i].handler # routes[j].handler
          /\ Handled(trace) = <<Eff("handler", routes[i].handler, trace[1].arg, i)>>

\* C4: route() and unroute() send setNetworkInterceptionEnabled(true) exactly
\* when the list goes from empty to non-empty, (false) exactly when it goes
\* from non-empty to empty, and nothing when emptiness does not change.
C4_InterceptionToggles ==
    [][(IsOp(trace', "route") \/ IsOp(trace', "unroute")) =>
         Sends(trace') =
            IF routes = <<>> /\ routes' # <<>>
            THEN <<Eff("send", "setNetworkInterceptionEnabled", "true", 0)>>
            ELSE IF routes # <<>> /\ routes' = <<>>
            THEN <<Eff("send", "setNetworkInterceptionEnabled", "false", 0)>>
            ELSE <<>>]_vars

\* C5: unroute(url, handler) that selects no entry of the route list leaves
\* the list unchanged and sends nothing, also when the list is empty.
C5_UnrouteUnknownIsNoOp ==
    [][(IsOp(trace', "unroute") /\
        \A i \in 1..Len(routes) :
           ~(/\ routes[i].match = trace'[1].arg
             /\ (trace'[1].arg2 = None \/ routes[i].handler = trace'[1].arg2))) =>
          /\ routes' = routes
          /\ Sends(trace') = <<>>]_vars

\* C6: a route notification reaches the browser context's _on_route exactly
\* when no entry of the page matches; exactly one of a page handler and the
\* context dispatcher receives the route.
C6_ContextFallback ==
    [][IsOp(trace', "route_notification") =>
         LET url == trace'[1].arg
             ctx == Eff("ctx_on_route", "browser_context", url, 0)
         IN /\ Has(trace', ctx) <=> MatchingEntries(url) = {}
            /\ Len(Handled(trace')) + Count(trace', "ctx_on_route") = 1]_vars

\* the page has routes, none matches, and the context dispatcher was called
C6_Witness ==
    /\ IsOp(trace, "route_notification")
    /\ routes # <<>>
    /\ MatchingEntries(trace[1].arg) = {}
    /\ Count(trace, "ctx_on_route") = 1

\* C7: a bindingCall notification reaches the browser context's _on_binding
\* only when the page has no function under the name; with a page binding
\* the page's function is scheduled and the context hook is not called.
C7_BindingFallback ==
    [][IsOp(trace', "bindingCall") =>
         LET name == trace'[1].arg
         IN IF bindings[name] # None
            THEN /\ Has(trace', Eff("create_task", name, bindings[name], 0))
                 /\ Count(trace', "ctx_on_binding") = 0
            ELSE Count(trace', "create_task") = 0]_vars

\* C8: a pending wait for close is resolved, not rejected with "Page closed",
\* by the close notification, and a pending wait for crash is resolved, not
\* rejected with "Page crashed", by the crash notification; the payload is
\* the one the event was emitted with.  (A wait whose predicate refuses the
\* payload is not resolved by it.)
C8_TerminalEventResolves ==
    [][\A ev \in {Close, Crash} :
         IsOp(trace', ev) =>
           \A w \in WaitIds :
              (IsPending(w) /\ waits[w].event = ev) =>
                 /\ waits'[w].state \notin {"closed", "crashed"}
                 /\ PredAccepts(waits[w].pred, None) =>
                       /\ waits'[w].state = "resolved"
                       /\ Resolved(trace', w, None)]_vars

\* a wait for close was resolved by the close notification
C8_Witness ==
    /\ IsOp(trace, Close)
    /\ \E w \in WaitIds : waits[w].event = Close /\ Resolved(trace, w, None)

\* C9: when the crash notification is processed, every wait pending for an
\* event other than crash is rejected with "Page crashed" in that step, also
\* when its timer has not fired.
C9_CrashRejectsPending ==
    [][IsOp(trace', Crash) =>
         \A w \in WaitIds :
            (IsPending(w) /\ waits[w].event # Crash) =>
                /\ waits'[w].state = "crashed"
                /\ Settled(trace', w, "crashed")]_vars

\* a wait for request whose timer was still running was rejected by the crash
C9_Witness ==
    /\ IsOp(trace, Crash)
    /\ \E w \in WaitIds :
          /\ waits[w].event = Request
          /\ \E i \in 1..Len(trace) :
                /\ trace[i].kind = "settle" /\ trace[i].id = w
                /\ trace[i].name = "crashed" /\ trace[i].arg2 = "running"

\* C10: once is_closed is true, a later notification emits no event and
\* runs no listener, and the close left no wait pending.
C10_NothingAfterClose ==
    is_closed =>
        /\ IsOp(trace, Close) => \A w \in WaitIds : ~IsPending(w)
        /\ (IsOp(trace, Request) \/ IsOp(trace, Crash)) =>
              Count(trace, "emit") = 0 /\ Count(trace, "settle") = 0

\* C11: the page performs at most one terminal transition: a close or crash
\* notification processed after a terminal notification has already been
\* processed emits nothing, so close and crash are never both emitted.
C11_OneTerminalTransition ==
    [][((IsOp(trace', Close) \/ IsOp(trace', Crash)) /\ delivered # {}) =>
         Count(trace', "emit") = 0]_vars

\* C14: a wait started with timeout=0 is never rejected with a timeout.
C14_ZeroNeverTimesOut ==
    [][\A w \in WaitIds :
         (IsPending(w) /\ waits[w].zero) => waits'[w].state # "timeout"]_vars

\* a wait started with timeout=0 is still pending when the timer of another
\* wait has fired
C14_Witness ==
    /\ IsOp(trace, "timeout")
    /\ \E w \in WaitIds : IsPending(w) /\ waits[w].zero

\* C16: a pending wait whose timer is due when the close (crash) notification
\* is processed is rejected with the terminal reason, and a wait rejected by
\* a terminal event keeps that outcome.
C16_TerminalBeatsTimeout ==
    [][\A w \in WaitIds :
         /\ (IsPending(w) /\ waits[w].left = 0) =>
               /\ (IsOp(trace', Close) /\ waits[w].event # Close) =>
                     waits'[w].state = "closed"
               /\ (IsOp(trace', Crash) /\ waits[w].event # Crash) =>
                     waits'[w].state = "crashed"
         /\ waits[w].state \in {"closed", "crashed"} =>
               waits'[w].state = waits[w].state]_vars

\* the close notification rejected a wait whose timer was due
C16_Witness ==
    /\ IsOp(trace, Close)
    /\ \E i \in 1..Len(trace) :
          /\ trace[i].kind = "settle" /\ trace[i].name = "closed"
          /\ trace[i].arg2 = "due"

\* the listeners wait w holds while it is pending
ListenersOf(w) ==
    {<<waits[w].event, WaitListener(w, "event")>>}
    \cup (IF waits[w].event # Crash THEN {<<Crash, WaitListener(w, Crash)>>} ELSE {})
    \cup (IF waits[w].event # Close THEN {<<Close, WaitListener(w, Close)>>} ELSE {})
WaitRegistered ==
    UNION {{<<e, listeners[e][i]>> : i \in {j \in 1..Len(listeners[e]) :
                                              listeners[e][j].kind = "wait"}} : e \in Events}
NoDuplicates(s) == \A i, j \in 1..Len(s) : s[i] = s[j] => i = j

\* C17: a wait settles at most once, and the listeners registered on the
\* page for waits are exactly those of the pending waits, each once: a
\* settled wait has left none behind.
C17_SettleOnceNoLeak ==
    /\ [](/\ WaitRegistered = UNION {ListenersOf(w) : w \in {v \in WaitIds : IsPending(v)}}
          /\ \A e \in Events : NoDuplicates(listeners[e]))
    /\ [][\A w \in WaitIds :
            /\ waits[w].state \notin {"idle", "pending"} => waits'[w] = waits[w]
            /\ Cardinality({i \in 1..Len(trace') :
                    trace'[i].kind = "settle" /\ trace'[i].id = w}) <= 1]_vars

\* a wait was settled by its event while another wait is pending, and only
\* the listeners of the pending wait are left
C17_Witness ==
    /\ \E w \in WaitIds : Settled(trace, w, "resolved")
    /\ \E w \in WaitIds : IsPending(w) /\ WaitRegistered = ListenersOf(w)

\* C18: expose_binding with a name already bound on the page or in the
\* browser context raises, sends nothing and leaves the binding table
\* unchanged; with a fresh name it records the callback and sends exactly
\* one exposeBinding message.
C18_DuplicateBindingRejected ==
    [][IsOp(trace', "expose_binding") =>
         LET name == trace'[1].arg IN
         IF bindings[name] # None \/ name \in ctx_bindings
         THEN /\ bindings' = bindings
              /\ Sends(trace') = <<>>
              /\ Count(trace', "raise") = 1
         ELSE /\ bindings' = [bindings EXCEPT ![name] = trace'[1].arg2]
              /\ Sends(trace') = <<Eff("send", "exposeBinding", name, 0)>>
              /\ Count(trace', "raise") = 0]_vars

\* expose_binding was refused for a name of the browser context while the
\* page holds a binding under another name
C18_Witness ==
    /\ IsOp(trace, "expose_binding")
    /\ trace[1].arg \in ctx_bindings
    /\ Count(trace, "raise") = 1
    /\ \E n \in Names : bindings[n] # None

\* C15: a wait started with a positive timeout whose predicate accepts
\* nothing is eventually rejected with a timeout unless close or crash
\* rejects it first; the timeout never comes before the deadline, and an
\* event that the predicate refuses does not resolve the wait.
C15_TimeoutAtDeadline ==
    /\ \A w \in LiveIds :
          (IsPending(w) /\ waits[w].pred = "never" /\ ~waits[w].zero)
             ~> (waits[w].state \in {"timeout", "closed", "crashed"})
    /\ [][\A w \in LiveIds :
            IsPending(w) =>
               /\ waits'[w].state = "timeout" => waits[w].left = 0
               /\ ~PredAccepts(waits[w].pred, trace'[1].arg) =>
                     waits'[w].state # "resolved"]_vars

\* the predicate of a wait for requests has refused a request and the
\* timer of the wait, started with a positive timeout, is now due
C15_Witness ==
    /\ IsOp(trace, Request)
    /\ \E w \in LiveIds :
          /\ IsPending(w) /\ waits[w].event = Request /\ waits[w].pred = "never"
          /\ ~waits[w].zero /\ waits[w].left = 0


\* C13: processing the crash notification rejects the pending waits and
\* emits crash, and changes nothing else: is_closed, the membership in the
\* context's pages, frames, workers, routes and bindings are as before.
C13_CrashLeavesPageAddressable ==
    [][IsOp(trace', Crash) =>
         /\ is_closed' = is_closed
         /\ in_pages' = in_pages
         /\ frames' = frames /\ detached' = detached
         /\ workers' = workers
         /\ routes' = routes
         /\ bindings' = bindings
         /\ Has(trace', Eff("emit", Crash, None, 0))
         /\ \A w \in WaitIds :
               (IsPending(w) /\ waits[w].event # Crash) => waits'[w].state = "crashed"]_vars

\* the crash notification was processed on an open page that has a child
\* frame, a worker, a route, a binding and a wait, which it rejected
C13_Witness ==
    /\ IsOp(trace, Crash)
    /\ ~is_closed /\ in_pages
    /\ Len(frames) > 1 /\ Len(workers) > 0 /\ Len(routes) > 0
    /\ \E n \in Names : bindings[n] # None
    /\ \E w \in WaitIds : Settled(trace, w, "crashed")

\* C12: when the close notification is processed, every listener of the
\* close event runs with is_closed() true and the page absent from the
\* context's pages, and no wait for another event is still pending when it
\* runs.
C12_CloseListenerSeesClosedPage ==
    [][IsOp(trace', Close) =>
         \A i \in 1..Len(trace') :
            /\ trace'[i].kind = "listener" => trace'[i].arg2 = "closed, not in pages"
            /\ trace'[i].kind = "sees pending" => trace'[i].id = 0]_vars

\* the methods of the messages of the call, in order
Methods(c) == [i \in 1..Len(c.msgs) |-> c.msgs[i].method]
\* what func handed back
Result(c) == IF c.func = "returns coroutine" THEN "coroutine" ELSE c.value
FuncRaised(c) ==
    c.args # "bad args" /\ c.func \in {"raises Exception", "raises BaseException"}
FuncReturned(c) ==
    c.args # "bad args" /\ c.func \in {"returns", "returns future", "returns coroutine"}
\* the call met a failure that is an Exception
Failure(c) ==
    \/ c.args = "bad args"
    \/ c.func = "raises Exception"
    \/ c.future \in {"failed", "cancelled"}
    \/ (c.future # "pending" /\ c.func # "raises BaseException" /\ ~CanSerialize(Result(c)))
    \/ c.resolve = "failed"

\* C19 as stated: when a call is over, a func that raised has led to one
\* reject with a non-empty error and no resolve, and a func that returned
\* normally to one resolve with the serialized return value and no reject.
C19_RejectIffFuncRaises ==
    call.pc \in {"done", "raised"} =>
       /\ FuncRaised(call) =>
             /\ Methods(call) = <<"reject">>
             /\ call.msgs[1].payload.message # ""
       /\ FuncReturned(call) =>
             call.msgs = <<Msg("resolve", [result |-> SerializeArgument(Result(call))])>>

\* C19 (amended): a call that ends normally after a failure (func raised an
\* Exception, the arguments could not be rebuilt, the awaited future failed,
\* the result could not be serialized, or the resolve send failed) has sent
\* one reject with a non-empty error, as its last message, and no resolve
\* but the failed one; a call that ends without failure has sent exactly the
\* resolve with the serialized result; a call that raises has sent nothing.
C19_RejectOnFailureElseResolve ==
    /\ call.pc = "done" =>
          IF Failure(call)
          THEN /\ Methods(call) = (IF call.resolve = "failed"
                                   THEN <<"resolve", "reject">> ELSE <<"reject">>)
               /\ call.msgs[Len(call.msgs)].payload.message # ""
          ELSE call.msgs = <<Msg("resolve", [result |-> SerializeArgument(Result(call))])>>
    /\ call.pc = "raised" => call.msgs = <<>>

\* func returned a plain value, the resolve send failed and the call ended
\* normally with a reject after the resolve
C19_Witness ==
    /\ call.pc = "done"
    /\ call.func = "returns" /\ call.value = "value" /\ call.args = "args"
    /\ call.resolve = "failed"
    /\ Len(call.msgs) = 2

\* C20 as stated: call() never raises to its caller.
C20_NeverRaises == call.pc # "raised"

\* C20 (amended): call() raises to its caller only when func raised
\* something that is not an Exception or the awaited future was cancelled;
\* every other failure, of both sends too, ends with call() returning.
C20_RaisesOnlyOutsideException ==
    /\ call.pc = "raised" =>
          (call.func = "raises BaseException" \/ call.future = "cancelled")
    /\ (call.resolve = "failed" \/ call.reject = "failed") => call.pc = "done"

\* both the resolve send and the reject send failed and the call is over
\* without having raised
C20_Witness ==
    /\ call.pc = "done"
    /\ call.resolve = "failed"
    /\ call.reject = "failed"

\* C21: when func hands back a pending asynchronous computation (a future,
\* or the coroutine of an asynchronous function), a resolve message is sent
\* only after the computation has completed and carries its final value.
C21_AwaitsAsyncResult ==
    \A i \in 1..Len(call.msgs) :
       (call.func \in {"returns future", "returns coroutine"}
          /\ call.msgs[i].method = "resolve") =>
             /\ call.future = "ok"
             /\ call.msgs[i].payload = [result |-> SerializeArgument(call.value)]

InterceptSends(tr, value) ==
    Cardinality({i \in 1..Len(tr) :
        tr[i] = Eff("send_no_reply", "setFileChooserInterceptedNoReply", value, 0)})

\* C22: in every step, setFileChooserInterceptedNoReply(true) is sent once
\* exactly when the filechooser listeners go from none to some, and
\* setFileChooserInterceptedNoReply(false) once exactly when they go from
\* some to none; a step that changes listeners otherwise sends neither.
C22_FileChooserInterception ==
    [][LET n == Len(listeners[FileChooser])
           m == Len(listeners'[FileChooser])
       IN /\ InterceptSends(trace', "true") = (IF n = 0 /\ m > 0 THEN 1 ELSE 0)
          /\ InterceptSends(trace', "false") = (IF n > 0 /\ m = 0 THEN 1 ELSE 0)
          /\ (n = 0 /\ m > 0) => m = 1]_vars

\* the close notification rejected the wait that held the last filechooser
\* listener, and the disable message went out, while a close listener of the
\* user stays registered
C22_Witness ==
    /\ IsOp(trace, Close)
    /\ InterceptSends(trace, "false") = 1
    /\ \E w \in WaitIds : waits[w].event = FileChooser /\ waits[w].state = "closed"
    /\ Len(listeners[Close]) > 0

Occurrences(s, x) == Cardinality({i \in 1..Len(s) : s[i] = x})
Sees(tr, what) ==
    \A i \in 1..Len(tr) : tr[i].kind = "sees object" => tr[i].arg2 = what

C24_AttachDetachRoundTrip ==
    [][/\ IsOp(trace', "frameAttached") =>
             /\ frames' = Append(frames, trace'[1].arg)
             /\ Sees(trace', "in frames")
       /\ IsOp(trace', "frameDetached") =>
             /\ trace'[1].arg \in detached'
             /\ ~InSeq(frames', trace'[1].arg)
             /\ Sees(trace', "not in frames, detached")
             /\ (IsOp(trace, "frameAttached") /\ trace[1].arg = trace'[1].arg) =>
                   Append(frames', trace'[1].arg) = frames]_vars

\* a child frame was detached while the other child frame stays attached,
\* and a framedetached listener ran
C24_Witness ==
    /\ IsOp(trace, "frameDetached")
    /\ Len(frames) = 2
    /\ detached = {trace[1].arg}
    /\ \E i \in 1..Len(trace) : trace[i].kind = "sees object"

\* C26: a worker notification appends the worker to page.workers, the close
\* notification of a worker removes that worker, before the close event of
\* the worker is emitted, and keeps the others in order, and nothing else
\* changes page.workers: it is the announced and not yet closed workers in
\* arrival order.
C26_WorkersTracked ==
    [][/\ IsOp(trace', "worker") => workers' = Append(workers, trace'[1].arg)
       /\ IsOp(trace', "workerClose") =>
             /\ workers' = SelectSeq(workers, LAMBDA x : x # trace'[1].arg)
             /\ \A i \in 1..Len(trace') :
                   trace'[i].kind = "emit_worker" => trace'[i].arg2 = "absent"
             /\ Count(trace', "emit_worker") = 1
       /\ ~(IsOp(trace', "worker") \/ IsOp(trace', "workerClose")) =>
             workers' = workers]_vars

\* worker1 was closed and has left page.workers while worker2 stays in it
C26_Witness ==
    /\ IsOp(trace, "workerClose")
    /\ Len(workers) = 1
    /\ Cardinality(worker_page) = 2
    /\ Has(trace, Eff2("emit_worker", Close, "worker1", "absent", 0))
    /\ is_closed = FALSE

\* C27: unroute(url, handler) removes exactly the entries whose pattern
\* equals url and whose handler equals handler (any handler when none is
\* given), keeps the others in their order, and sends the disable message
\* when the list it leaves is empty.
C27_UnrouteRemovesExactly ==
    [][IsOp(trace', "unroute") =>
         LET url == trace'[1].arg
             handler == trace'[1].arg2
             Removed(r) == r.match = url /\ (handler = None \/ r.handler = handler)
         IN /\ routes' = SelectSeq(routes, LAMBDA r : ~Removed(r))
            /\ Len(routes') = 0 =>
                  Sends(trace') = <<Eff("send", "setNetworkInterceptionEnabled", "false", 0)>>
            /\ Len(routes') > 0 => Sends(trace') = <<>>]_vars

\* unroute was called with a handler and left two entries behind, one of
\* them with the same pattern and another handler
C27_Witness ==
    /\ IsOp(trace, "unroute")
    /\ trace[1].arg2 # None
    /\ Len(routes) = 2
    /\ \E i \in 1..Len(routes) :
          routes[i].match = trace[1].arg /\ routes[i].handler # trace[1].arg2
    /\ \E i \in 1..Len(routes) : routes[i].match # trace[1].arg

\* C29: after any sequence of route and unroute calls, the last
\* setNetworkInterceptionEnabled value sent, if any, is true exactly when the
\* route list is non-empty, and a non-empty list means enable was sent.
C29_InterceptionFollowsRoutes ==
    /\ intercept # "none" => (intercept = "true" <=> Len(routes) > 0)
    /\ Len(routes) > 0 => intercept = "true"

\* unroute has just emptied the list again and sent the disable message
C29_Witness ==
    /\ IsOp(trace, "unroute")
    /\ Len(routes) = 0
    /\ Sends(trace) = <<Eff("send", "setNetworkInterceptionEnabled", "false", 0)>>
    /\ intercept = "false"

\* C25: a route or bindingCall notification whose handler fails raises
\* nothing out of _on_route / _on_binding and leaves the route list and the
\* binding table as they were.
C25_HandlerFailureIsolated ==
    [][(IsOp(trace', "route_notification") \/ IsOp(trace', "bindingCall")) =>
         /\ Count(trace', "raise") = 0
         /\ routes' = routes
         /\ bindings' = bindings]_vars

Tasks == {t \in in_flight : t[1] = "task"}

\* C28: a route notification that matches an asynchronous handler creates a
\* task for it and returns while the task is unfinished; whatever tasks are
\* unfinished, a route notification calls the first matching handler, and a
\* close or crash notification that was not delivered yet can be processed.
C28_AsyncHandlerNotAwaited ==
    /\ [][IsOp(trace', "route_notification") =>
            /\ MatchingEntries(trace'[1].arg) # {} =>
                  LET i == FirstOf(MatchingEntries(trace'[1].arg))
                      h == routes[i].handler
                  IN /\ Handled(trace') = <<Eff("handler", h, trace'[1].arg, i)>>
                     /\ h \in AsyncHandlers =>
                           <<"task", h, trace'[1].arg>> \in in_flight'
            /\ Tasks \subseteq in_flight']_vars
    /\ [](Tasks # {} =>
            /\ ENABLED RouteArrives
            /\ Close \notin delivered => ENABLED CloseNotification
            /\ Crash \notin delivered => ENABLED CrashNotification)

\* the close notification was processed while the tasks of two asynchronous
\* handler calls are unfinished
C28_Witness ==
    /\ IsOp(trace, Close)
    /\ {<<"task", "h2", "a">>, <<"task", "h2", "b">>} \subseteq in_flight

\* C30: while the exposeBinding send of a name is in flight the name is in
\* the binding table: a second expose_binding for it raises, sends nothing
\* and changes nothing, and a bindingCall for it finds the function.
C30_ExposeBindingAtomic ==
    /\ [](\A name \in Names : Exposing(name) => bindings[name] # None)
    /\ [][\A name \in Names :
            (Exposing(name) /\ trace'[1].arg = name) =>
               /\ IsOp(trace', "expose_binding") =>
                     /\ Count(trace', "raise") = 1
                     /\ Sends(trace') = <<>>
                     /\ bindings' = bindings
                     /\ in_flight' = in_flight
               /\ IsOp(trace', "bindingCall") =>
                     Has(trace', Eff("create_task", name, bindings[name], 0))]_vars

\* a second expose_binding for a name was refused while the send of the
\* first is in flight, and a bindingCall for the name has left a task
C30_Witness ==
    /\ IsOp(trace, "expose_binding")
    /\ Count(trace, "raise") = 1
    /\ Exposing(trace[1].arg)
    /\ <<"task", trace[1].arg, "cb1">> \in in_flight

\* C31: a wait pending for close is rejected with "Page crashed" when the
\* crash notification is processed, and a wait pending for crash is rejected
\* with "Page closed" when the close notification is processed.
C31_OtherTerminalEventCancels ==
    [][\A w \in WaitIds :
         /\ (IsOp(trace', Crash) /\ IsPending(w) /\ waits[w].event = Close) =>
               /\ waits'[w].state = "crashed"
               /\ Settled(trace', w, "crashed")
         /\ (IsOp(trace', Close) /\ IsPending(w) /\ waits[w].event = Crash) =>
               /\ waits'[w].state = "closed"
               /\ Settled(trace', w, "closed")]_vars

\* the crash notification rejected a wait for close while a wait for crash
\* had been rejected by the close notification before
C31_Witness ==
    /\ IsOp(trace, Crash)
    /\ \E w, v \in WaitIds :
          /\ waits[w].event = Close /\ Settled(trace, w, "crashed")
          /\ waits[v].event = Crash /\ waits[v].state = "closed"

\* C32: is_closed is false before anything has happened, changes only in the
\* step that processes the close notification, and only to true; neither
\* close() nor the crash notification changes it.
C32_ClosedOnlyByCloseNotification ==
    /\ [](trace = <<>> => ~is_closed)
    /\ [][/\ is_closed' # is_closed => (IsOp(trace', Close) /\ is_closed')
          /\ IsOp(trace', Close) => is_closed'
          /\ (IsOp(trace', "page.close") \/ IsOp(trace', Crash)) =>
                is_closed' = is_closed]_vars

\* close() was called and its send went out after the crash notification
\* was processed, and the page is still not closed
C32_Witness ==
    /\ IsOp(trace, "page.close")
    /\ Has(trace, Eff("send", "close", None, 0))
    /\ Crash \in delivered
    /\ ~is_closed

====
